---- MODULE Spec2Model ----
(***************************************************************************)
(* A model of the message-routed document question-answering pipeline:     *)
(* CoordinatorAgent.handle_message and the stages it drives                *)
(* (IngestionAgent.preprocess, RetrievalAgent.add_chunks / delete_file /   *)
(* query, LLMResponseAgent.generate), together with the pure helpers       *)
(* parse_file, chunk_text_data and format_citation.                        *)
(*                                                                         *)
(* Conventions.                                                            *)
(*  - A Python str the code builds or takes apart is a sequence of         *)
(*    one-character strings; an opaque one (a message type, a trace_id,    *)
(*    a role name, a record type) is a TLA+ string.                        *)
(*  - A Python dict is a function on its present keys.  A dict value v is  *)
(*    held as the one-element tuple <<v>> and None as <<>>, so that        *)
(*    "d.get(k) is not None" and "k in d" are different tests.             *)
(*  - An MCPMessage is a record; a message built without a type has no     *)
(*    type field.                                                          *)
(***************************************************************************)
EXTENDS Integers, Sequences, FiniteSets, TLC

(***************************************************************************)
(* Bounds of the model.                                                    *)
(***************************************************************************)
\* longest file_paths list of one INGESTION_REQUEST
MaxFiles == 2
\* most chunks one file yields: the sentences (and the lines) of a text
\* file, the rows of a csv file
MaxChunks == 2
\* most records the model lets the collection grow to
MaxStore == 2

(***************************************************************************)
(* Python values.                                                          *)
(***************************************************************************)
None == <<>>
V(x) == <<x>>
Val(c) == c[1]

\* d.get(k)
Get(d, k) == IF k \in DOMAIN d THEN d[k] ELSE None

Digit(d) == <<"0", "1", "2", "3", "4", "5", "6", "7", "8", "9">>[d + 1]

\* str(n) for a non-negative int
RECURSIVE IntToStr(_)
IntToStr(n) == IF n < 10 THEN <<Digit(n)>> ELSE IntToStr(n \div 10) \o <<Digit(n % 10)>>

IsSpace(c) == c \in {" ", "\n"}

RECURSIVE LStrip(_)
LStrip(s) == IF s # <<>> /\ IsSpace(Head(s)) THEN LStrip(Tail(s)) ELSE s

RECURSIVE RStrip(_)
RStrip(s) == IF s # <<>> /\ IsSpace(s[Len(s)]) THEN RStrip(SubSeq(s, 1, Len(s) - 1)) ELSE s

\* str.strip()
Strip(s) == RStrip(LStrip(s))

\* str.split(sep) for a one-character separator
RECURSIVE SplitAcc(_, _, _)
SplitAcc(s, sep, cur) ==
    IF s = <<>> THEN <<cur>>
    ELSE IF Head(s) = sep THEN <<cur>> \o SplitAcc(Tail(s), sep, <<>>)
    ELSE SplitAcc(Tail(s), sep, Append(cur, Head(s)))

Split(s, sep) == SplitAcc(s, sep, <<>>)

\* sep.join(parts)
RECURSIVE Join(_, _)
Join(sep, parts) ==
    IF parts = <<>> THEN <<>>
    ELSE IF Len(parts) = 1 THEN parts[1]
    ELSE parts[1] \o sep \o Join(sep, Tail(parts))

\* str.lower()
UpperCase == <<"A", "B", "C", "D", "E", "F", "G", "H", "I", "J", "K", "L", "M", "N", "O", "P", "Q", "R", "S", "T", "U", "V", "W", "X", "Y", "Z">>
LowerCase == <<"a", "b", "c", "d", "e", "f", "g", "h", "i", "j", "k", "l", "m", "n", "o", "p", "q", "r", "s", "t", "u", "v", "w", "x", "y", "z">>

LowerChar(c) ==
    IF \E k \in DOMAIN UpperCase : UpperCase[k] = c
    THEN LowerCase[CHOOSE k \in DOMAIN UpperCase : UpperCase[k] = c]
    ELSE c

Lower(s) == [i \in 1..Len(s) |-> LowerChar(s[i])]

\* the elements of a sequence that satisfy Keep, in order
RECURSIVE SelectIdx(_, _)
SelectIdx(s, keep) ==
    IF s = <<>> THEN <<>>
    ELSE (IF keep[1] THEN <<Head(s)>> ELSE <<>>)
         \o SelectIdx(Tail(s), Tail(keep))

\* concatenation of a sequence of sequences
RECURSIVE Flatten(_)
Flatten(ss) == IF ss = <<>> THEN <<>> ELSE Head(ss) \o Flatten(Tail(ss))

Range(s) == {s[i] : i \in DOMAIN s}

(***************************************************************************)
(* os.path                                                                 *)
(***************************************************************************)
LastIndexOf(s, c) ==
    IF \E i \in DOMAIN s : s[i] = c
    THEN CHOOSE i \in DOMAIN s : s[i] = c /\ \A j \in DOMAIN s : s[j] = c => j <= i
    ELSE 0

\* os.path.basename
basename(path) == SubSeq(path, LastIndexOf(path, "/") + 1, Len(path))

\* os.path.splitext(path)[1]: from the last dot of the base name, unless
\* that dot only follows leading dots
splitext_ext(path) ==
    LET base == basename(path)
        dot == LastIndexOf(base, ".")
    IN  IF dot = 0 \/ (\A j \in 1..dot : base[j] = ".")
        THEN <<>>
        ELSE SubSeq(base, dot, Len(base))

(***************************************************************************)
(* utils/file_parser.py                                                    *)
(*                                                                         *)
(* What a parsing library hands back for a path is the parser's input:     *)
(*   [kind |-> "error"]                 the open / read raises             *)
(*   [kind |-> "txt",  raw |-> str]     f.read()                           *)
(*   [kind |-> "csv",  df |-> frame]    pd.read_csv                        *)
(*   [kind |-> "pdf",  pages |-> ...]   pdfplumber pages                   *)
(*   [kind |-> "pptx", slides |-> ...]  python-pptx slides                 *)
(*   [kind |-> "docx", paragraphs |-> ..., tables |-> ...]                 *)
(* A frame is [columns |-> seq of labels, rows |-> seq of rows]; a label   *)
(* or a cell is V(str) or None (NaN).  A parser returns                    *)
(* [ok |-> TRUE, entries |-> ...] or [ok |-> FALSE, exc |-> ...].          *)
(***************************************************************************)
Unnamed == <<"U", "n", "n", "a", "m", "e", "d", ":">>

StartsWith(s, prefix) == Len(s) >= Len(prefix) /\ SubSeq(s, 1, Len(prefix)) = prefix

\* row[col]: with a duplicated label pandas returns a Series and the code
\* takes its first element
RowAt(df, row, j) ==
    LET first == CHOOSE k \in 1..j : df.columns[k] = df.columns[j]
                                     /\ \A h \in 1..j : df.columns[h] = df.columns[j] => k <= h
    IN  row[first]

kv_pair(df, row, j) ==
    LET col == df.columns[j]
        col_name == IF col # None THEN Strip(Val(col)) ELSE <<>>
        val == RowAt(df, row, j)
        cell_value == IF val # None THEN Strip(Val(val)) ELSE <<>>
    IN  IF ~StartsWith(col_name, Unnamed)
        THEN col_name \o <<":", " ">> \o cell_value
        ELSE cell_value

table_to_kv_chunks(df) ==
    [r \in 1..Len(df.rows) |->
        Join(<<";", " ">>, [j \in 1..Len(df.columns) |-> kv_pair(df, df.rows[r], j)])]

MaxLen(rows) == IF rows = <<>> THEN 0
                ELSE CHOOSE n \in {Len(rows[i]) : i \in DOMAIN rows} :
                        \A i \in DOMAIN rows : Len(rows[i]) <= n

\* pd.DataFrame(data, columns=header): short rows are padded with NaN, a
\* header of another width than the data raises
DataFrame(data, header) ==
    IF data # <<>> /\ MaxLen(data) # Len(header)
    THEN [ok |-> FALSE]
    ELSE [ok |-> TRUE, columns |-> header,
          rows |-> [r \in 1..Len(data) |->
                      [j \in 1..Len(header) |->
                          IF j <= Len(data[r]) THEN data[r][j] ELSE None]]]

\* pd.DataFrame(data): the labels are 0..width-1
DataFrameNoHeader(data) ==
    DataFrame(data, [j \in 1..MaxLen(data) |-> V(IntToStr(j - 1))])

parse_txt(path, read) ==
    IF read.kind # "txt" THEN [ok |-> FALSE, exc |-> "OSError"]
    ELSE
    LET base_name == basename(path)
        text == Strip(read.raw)
        lines == Split(text, "\n")
        paragraphs == SelectIdx([i \in 1..Len(lines) |-> Strip(lines[i])],
                                [i \in 1..Len(lines) |-> Strip(lines[i]) # <<>>])
    IN  [ok |-> TRUE,
         entries |-> [i \in 1..Len(paragraphs) |->
                        [text |-> V(paragraphs[i]),
                         source_file |-> V(base_name),
                         paragraph |-> V(i),
                         type |-> V("txt_paragraph")]]]

parse_csv(path, read) ==
    IF read.kind # "csv" THEN [ok |-> FALSE, exc |-> "OSError"]
    ELSE
    LET base_name == basename(path)
        kv == table_to_kv_chunks(read.df)
    IN  [ok |-> TRUE,
         entries |-> [i \in 1..Len(kv) |->
                        [text |-> V(kv[i]),
                         source_file |-> V(base_name),
                         row |-> V(i),
                         type |-> V("csv_row")]]]

\* the table_row entries of one table
TableRows(base_name, df, where, table_no) ==
    LET kv == table_to_kv_chunks(df)
    IN  [r \in 1..Len(kv) |->
            [text |-> V(kv[r]), source_file |-> V(base_name),
             table |-> V(table_no), row |-> V(r), type |-> V("table_row")] @@ where]

parse_pdf(path, read) ==
    IF read.kind # "pdf" THEN [ok |-> FALSE, exc |-> "OSError"]
    ELSE
    LET base_name == basename(path)
        pages == read.pages
        frame(p, t) == DataFrame(Tail(pages[p].tables[t]), Head(pages[p].tables[t]))
        pageEntries(p) ==
            (IF pages[p].text # None /\ Val(pages[p].text) # <<>>
             THEN << [text |-> V(Strip(Val(pages[p].text))), source_file |-> V(base_name),
                      page |-> V(p), type |-> V("pdf_text")] >>
             ELSE <<>>)
            \o Flatten([t \in 1..Len(pages[p].tables) |->
                          TableRows(base_name, frame(p, t), [page |-> V(p)], (t - 1) + 1)])
    IN  IF \E p \in DOMAIN pages : \E t \in DOMAIN pages[p].tables : ~frame(p, t).ok
        THEN [ok |-> FALSE, exc |-> "ValueError"]
        ELSE [ok |-> TRUE, entries |-> Flatten([p \in 1..Len(pages) |-> pageEntries(p)])]

\* a shape is [has_table |-> BOOLEAN, text |-> V(str) or None (no text
\* attribute), rows |-> cells of the table]
parse_pptx(path, read) ==
    IF read.kind # "pptx" THEN [ok |-> FALSE, exc |-> "OSError"]
    ELSE
    LET base_name == basename(path)
        slides == read.slides
        isText(sh) == sh.text # None /\ ~sh.has_table
        \* table_num as incremented up to and including shape k of slide i
        table_num(i, k) == Cardinality({h \in 1..k : ~isText(slides[i][h]) /\ slides[i][h].has_table})
        frame(sh) == IF sh.rows = <<>> THEN [ok |-> FALSE]
                     ELSE DataFrame(Tail(sh.rows), Head(sh.rows))
        shapeEntries(i, k) ==
            LET sh == slides[i][k]
            IN  IF ~isText(sh) /\ sh.has_table /\ frame(sh).ok
                THEN TableRows(base_name, frame(sh), [slide |-> V((i - 1) + 1)], table_num(i, k))
                ELSE <<>>
        slide_text_parts(i) ==
            SelectIdx([k \in 1..Len(slides[i]) |->
                          IF slides[i][k].text # None THEN Strip(Val(slides[i][k].text)) ELSE <<>>],
                      [k \in 1..Len(slides[i]) |->
                          isText(slides[i][k]) /\ Strip(Val(slides[i][k].text)) # <<>>])
        slideEntries(i) ==
            Flatten([k \in 1..Len(slides[i]) |-> shapeEntries(i, k)])
            \o (IF slide_text_parts(i) # <<>>
                THEN << [text |-> V(Join(<<" ">>, slide_text_parts(i))),
                         source_file |-> V(base_name),
                         slide |-> V((i - 1) + 1), type |-> V("pptx_slide")] >>
                ELSE <<>>)
    IN  [ok |-> TRUE, entries |-> Flatten([i \in 1..Len(slides) |-> slideEntries(i)])]

parse_docx(path, read) ==
    IF read.kind # "docx" THEN [ok |-> FALSE, exc |-> "OSError"]
    ELSE
    LET base_name == basename(path)
        paras == read.paragraphs
        tables == read.tables
        paraEntries ==
            SelectIdx([i \in 1..Len(paras) |->
                          [text |-> V(Strip(paras[i])), source_file |-> V(base_name),
                           paragraph |-> V(i), type |-> V("docx_paragraph")]],
                      [i \in 1..Len(paras) |-> Strip(paras[i]) # <<>>])
        frame(t) == IF Len(tables[t]) >= 2
                    THEN DataFrame(Tail(tables[t]), Head(tables[t]))
                    ELSE DataFrameNoHeader(tables[t])
        \* enumerate(doc.tables, start=1) and then "table": table_num + 1
        tableEntries(t) == TableRows(base_name, frame(t), <<>>, t + 1)
    IN  IF \E t \in DOMAIN tables : ~frame(t).ok
        THEN [ok |-> FALSE, exc |-> "ValueError"]
        ELSE [ok |-> TRUE,
              entries |-> paraEntries \o Flatten([t \in 1..Len(tables) |-> tableEntries(t)])]

ExtPdf == <<".", "p", "d", "f">>
ExtCsv == <<".", "c", "s", "v">>
ExtPptx == <<".", "p", "p", "t", "x">>
ExtDocx == <<".", "d", "o", "c", "x">>
ExtTxt == <<".", "t", "x", "t">>
ExtMd == <<".", "m", "d">>

\* the parser parse_file dispatches a path to ("" when it raises)
ParserOf(path) ==
    LET ext == Lower(splitext_ext(path))
    IN  CASE ext = ExtPdf -> "pdf"
          [] ext = ExtCsv -> "csv"
          [] ext = ExtPptx -> "pptx"
          [] ext = ExtDocx -> "docx"
          [] ext \in {ExtTxt, ExtMd} -> "txt"
          [] OTHER -> "unsupported"

parse_file(path, read) ==
    LET ext == Lower(splitext_ext(path))
    IN  IF ext = ExtPdf THEN parse_pdf(path, read)
        ELSE IF ext = ExtCsv THEN parse_csv(path, read)
        ELSE IF ext = ExtPptx THEN parse_pptx(path, read)
        ELSE IF ext = ExtDocx THEN parse_docx(path, read)
        ELSE IF ext \in {ExtTxt, ExtMd} THEN parse_txt(path, read)
        ELSE [ok |-> FALSE, exc |-> "ValueError"]

(***************************************************************************)
(* utils/chunking.py                                                       *)
(***************************************************************************)
\* nltk sent_tokenize: a sentence ends at a full stop that is followed by
\* white space or ends the text; sentences are stripped and white space
\* alone is no sentence
RECURSIVE SentScan(_, _, _)
SentScan(text, i, cur) ==
    IF i > Len(text)
    THEN (IF Strip(cur) = <<>> THEN <<>> ELSE <<Strip(cur)>>)
    ELSE IF text[i] = "." /\ (i = Len(text) \/ IsSpace(text[i + 1]))
    THEN <<Strip(Append(cur, "."))>> \o SentScan(text, i + 1, <<>>)
    ELSE SentScan(text, i + 1, Append(cur, text[i]))

sent_tokenize(text) == SentScan(text, 1, <<>>)

\* the chunks of one entry, numbered from 0 and without the slide
chunk_entry_from_zero(entry) ==
    IF Val(entry.type) \in {"table_row", "csv_row"}
    THEN <<entry>>
    ELSE LET sentences == sent_tokenize(Val(entry.text))
         IN  [i \in 1..Len(sentences) |->
                [text |-> V(sentences[i]),
                 source_file |-> entry.source_file,
                 sentence |-> V(i - 1),
                 type |-> V("sentence")]
                @@ [key \in {"page", "paragraph"} \cap DOMAIN entry |-> entry[key]]]

\* the chunks of one entry
chunk_entry(entry) ==
    IF Val(entry.type) \in {"table_row", "csv_row"}
    THEN <<entry>>
    ELSE LET sentences == sent_tokenize(Val(entry.text))
         IN  [i \in 1..Len(sentences) |->
                [text |-> V(sentences[i]),
                 source_file |-> entry.source_file,
                 sentence |-> V((i - 1) + 1),
                 type |-> V("sentence")]
                @@ [key \in {"page", "paragraph", "slide"} \cap DOMAIN entry |-> entry[key]]]

chunk_text_data(parsed_data) ==
    Flatten([e \in 1..Len(parsed_data) |-> chunk_entry(parsed_data[e])])

(***************************************************************************)
(* agents/llmresponse_agent.py: format_citation                            *)
(***************************************************************************)
\* one part of a citation: the positional fields hold ints, source_file a str
NumberPart(meta, key, label) ==
    IF Get(meta, key) # None THEN <<label \o IntToStr(Val(meta[key]))>> ELSE <<>>

TextPart(meta, key, label) ==
    IF Get(meta, key) # None THEN <<label \o Val(meta[key])>> ELSE <<>>

\* format_citation with the table and row parts in the other order
format_citation_row_first(meta) ==
    LET parts == NumberPart(meta, "page", <<"P", "a", "g", "e", " ">>)
                 \o NumberPart(meta, "paragraph", <<"P", "a", "r", "a", " ">>)
                 \o NumberPart(meta, "slide", <<"S", "l", "i", "d", "e", " ">>)
                 \o NumberPart(meta, "row", <<"R", "o", "w", " ">>)
                 \o NumberPart(meta, "table", <<"T", "a", "b", "l", "e", " ">>)
                 \o TextPart(meta, "source_file", <<"S", "o", "u", "r", "c", "e", ":", " ">>)
    IN  IF parts # <<>> THEN Join(<<",", " ">>, parts)
        ELSE <<"U", "n", "k", "n", "o", "w", "n">>

format_citation(meta) ==
    LET parts == NumberPart(meta, "page", <<"P", "a", "g", "e", " ">>)
                 \o NumberPart(meta, "paragraph", <<"P", "a", "r", "a", " ">>)
                 \o NumberPart(meta, "slide", <<"S", "l", "i", "d", "e", " ">>)
                 \o NumberPart(meta, "table", <<"T", "a", "b", "l", "e", " ">>)
                 \o NumberPart(meta, "row", <<"R", "o", "w", " ">>)
                 \o TextPart(meta, "source_file", <<"S", "o", "u", "r", "c", "e", ":", " ">>)
    IN  IF parts # <<>> THEN Join(<<",", " ">>, parts)
        ELSE <<"U", "n", "k", "n", "o", "w", "n">>

(***************************************************************************)
(* agents/retrieval_agent.py                                               *)
(*                                                                         *)
(* The collection is a function from record id to                          *)
(* [document, metadata, embedding].                                        *)
(***************************************************************************)
top_k == 5

Count(s, c) == Cardinality({i \in DOMAIN s : s[i] = c})

\* the embedder: a fixed function from a text to a vector
Embed(text) == <<Count(text, "x"), Count(text, "y")>>

\* squared L2 distance, the collection's default metric
Distance(u, v) == (u[1] - v[1]) * (u[1] - v[1]) + (u[2] - v[2]) * (u[2] - v[2])

\* ids = [f"{chunk['source_file']}_{i}" for i, chunk in enumerate(chunks)]
\* an id made of the chunk's own sentence or row number instead of its index
\* in the batch
ChunkId_by_position(chunk, i) ==
    Val(chunk.source_file) \o <<"_">>
    \o IntToStr(IF Get(chunk, "sentence") # None THEN Val(chunk.sentence)
                ELSE IF Get(chunk, "row") # None THEN Val(chunk.row)
                ELSE 0)

ChunkId(chunk, i) == Val(chunk.source_file) \o <<"_">> \o IntToStr(i)

ChunkIds(chunks) == [k \in 1..Len(chunks) |-> ChunkId(chunks[k], k - 1)]

MetaKeys == {"page", "paragraph", "slide", "row", "table", "sentence"}

\* a projection that copies every key the chunk has, a None value too
ChunkMetadata_key_in(chunk) ==
    [source_file |-> chunk.source_file, type |-> chunk.type]
    @@ [key \in MetaKeys \cap DOMAIN chunk |-> chunk[key]]

ChunkMetadata(chunk) ==
    [source_file |-> chunk.source_file, type |-> chunk.type]
    @@ [key \in {k \in MetaKeys : Get(chunk, k) # None} |-> chunk[key]]

\* an upsert that adds a record under a fresh id where the id is taken
RECURSIVE Upsert_add(_, _, _, _)
Upsert_add(coll, ids, documents, metadatas) ==
    IF ids = <<>> THEN coll
    ELSE LET rec == [document |-> Head(documents),
                     metadata |-> Head(metadatas),
                     embedding |-> Embed(Head(documents))]
             id == IF Head(ids) \in DOMAIN coll THEN Head(ids) \o <<"'">> ELSE Head(ids)
             rest == [i \in DOMAIN coll \ {id} |-> coll[i]]
         IN  Upsert_add(rest @@ (id :> rec), Tail(ids), Tail(documents), Tail(metadatas))

\* an upsert that first drops every record of the files of the batch
RECURSIVE Upsert_fold(_, _, _, _)
Upsert_fold(coll, ids, documents, metadatas) ==
    IF ids = <<>> THEN coll
    ELSE LET rec == [document |-> Head(documents),
                     metadata |-> Head(metadatas),
                     embedding |-> Embed(Head(documents))]
             rest == [i \in DOMAIN coll \ {Head(ids)} |-> coll[i]]
         IN  Upsert_fold(rest @@ (Head(ids) :> rec), Tail(ids), Tail(documents), Tail(metadatas))

Upsert_replace(coll, ids, documents, metadatas) ==
    LET files == {metadatas[k].source_file : k \in DOMAIN metadatas}
    IN  Upsert_fold([i \in {j \in DOMAIN coll : coll[j].metadata.source_file \notin files} |-> coll[i]],
                    ids, documents, metadatas)

\* collection.upsert: insert or overwrite by id, in batch order
RECURSIVE Upsert(_, _, _, _)
Upsert(coll, ids, documents, metadatas) ==
    IF ids = <<>> THEN coll
    ELSE LET rec == [document |-> Head(documents),
                     metadata |-> Head(metadatas),
                     embedding |-> Embed(Head(documents))]
             rest == [i \in DOMAIN coll \ {Head(ids)} |-> coll[i]]
         IN  Upsert(rest @@ (Head(ids) :> rec), Tail(ids), Tail(documents), Tail(metadatas))

AddedStatus == <<"A", "d", "d", "e", "d", " ", "t", "o", " ", "C", "h", "r", "o", "m", "e", "D", "B">>

\* add_chunks: the collection after the call and what the call returns.
\* An upsert of no record at all is rejected by some releases of the store
\* and accepted by others (emptyRaises).
add_chunks(coll, message, emptyRaises) ==
    LET chunks == message.payload.chunks
        texts == [k \in 1..Len(chunks) |-> Val(chunks[k].text)]
        ids == ChunkIds(chunks)
        metadatas == [k \in 1..Len(chunks) |-> ChunkMetadata(chunks[k])]
    IN  IF chunks = <<>> /\ emptyRaises
        THEN [coll |-> coll, ret |-> [kind |-> "raise", exc |-> "ValueError"]]
        ELSE [coll |-> Upsert(coll, ids, texts, metadatas),
              ret |-> [kind |-> "str", val |-> AddedStatus]]

\* a delete that matches source_file by prefix
DeleteWhere_prefix(coll, source_file) ==
    [i \in {j \in DOMAIN coll : ~StartsWith(Val(coll[j].metadata.source_file), source_file)} |-> coll[i]]

\* collection.delete(where={"source_file": source_file})
DeleteWhere(coll, source_file) ==
    [i \in {j \in DOMAIN coll : coll[j].metadata.source_file # V(source_file)} |-> coll[i]]

delete_file(coll, message) ==
    LET source_file == message.payload.source_file
    IN  [coll |-> DeleteWhere(coll, source_file),
         ret |-> [kind |-> "str",
                  val |-> <<"C", "h", "u", "n", "k", "s", " ", "f", "o", "r", " ", "f", "i", "l", "e", " ">>
                          \o source_file
                          \o <<" ", "d", "e", "l", "e", "t", "e", "d", " ", "f", "r", "o", "m", " ",
                               "C", "h", "r", "o", "m", "a", "D", "B">>]]

\* list_files
list_files(coll) == {Val(coll[i].metadata.source_file) : i \in DOMAIN coll}

Min(a, b) == IF a <= b THEN a ELSE b

\* collection.query: the answers the store may give, nearest first; records
\* at the same distance come in any order
Rankings(coll, embedding, n_results) ==
    LET n == Min(n_results, Cardinality(DOMAIN coll))
        d(i) == Distance(embedding, coll[i].embedding)
    IN  {r \in [1..n -> DOMAIN coll] :
            /\ \A a, b \in 1..n : a < b => r[a] # r[b] /\ d(r[a]) <= d(r[b])
            /\ \A i \in DOMAIN coll : (\A a \in 1..n : r[a] # i) => \A a \in 1..n : d(r[a]) <= d(i)}

query(coll, message, ranking) ==
    LET user_query == message.payload.user_query
    IN  [sender |-> "RetrievalAgent",
         receiver |-> "LLMResponseAgent",
         type |-> "LLM_REQUEST",
         trace_id |-> message.trace_id,
         payload |-> [top_chunks |-> [k \in 1..Len(ranking) |->
                                         [text |-> coll[ranking[k]].document,
                                          metadata |-> coll[ranking[k]].metadata]],
                      user_query |-> user_query]]

(***************************************************************************)
(* agents/ingestion_agent.py                                               *)
(***************************************************************************)
\* a preprocess that skips the files that fail to parse
preprocess_skip(message, reads) ==
    LET file_paths == message.payload.file_paths
        parsed == [k \in 1..Len(file_paths) |->
                     IF file_paths[k] \in DOMAIN reads
                     THEN parse_file(file_paths[k], reads[file_paths[k]])
                     ELSE [ok |-> TRUE, entries |-> <<>>]]
        all_chunks == Flatten([k \in 1..Len(file_paths) |->
                                 IF parsed[k].ok THEN chunk_text_data(parsed[k].entries) ELSE <<>>])
    IN  [kind |-> "message",
         val |-> [sender |-> "IngestionAgent",
                  receiver |-> "RetrievalAgent",
                  type |-> "ADDTO_DB",
                  trace_id |-> message.trace_id,
                  payload |-> [chunks |-> all_chunks]]]

\* preprocess: reads[p] is what the parsing library hands back for path p.
\* The first file that fails to parse raises out of the loop.
preprocess(message, reads) ==
    LET file_paths == message.payload.file_paths
        \* a file after the first failure is not read
        parsed == [k \in 1..Len(file_paths) |->
                     IF file_paths[k] \in DOMAIN reads
                     THEN parse_file(file_paths[k], reads[file_paths[k]])
                     ELSE [ok |-> TRUE, entries |-> <<>>]]
        failed == {k \in 1..Len(file_paths) : ~parsed[k].ok}
        first == CHOOSE k \in failed : \A h \in failed : k <= h
        all_chunks == Flatten([k \in 1..Len(file_paths) |-> chunk_text_data(parsed[k].entries)])
    IN  IF failed # {}
        THEN [kind |-> "raise", exc |-> parsed[first].exc]
        ELSE [kind |-> "message",
              val |-> [sender |-> "IngestionAgent",
                       receiver |-> "RetrievalAgent",
                       type |-> "ADDTO_DB",
                       trace_id |-> message.trace_id,
                       payload |-> [chunks |-> all_chunks]]]

(***************************************************************************)
(* agents/llmresponse_agent.py: generate                                   *)
(*                                                                         *)
(* The text the language model returns is a sequence of tokens: "{", "}",  *)
(* ",", " ", "\n", "p" (a character of prose), "A" (a well-formed member   *)
(* "answer": "X") and "C" (a well-formed member "citation": "S").          *)
(***************************************************************************)
AnswerText == <<"X">>
CitationText == <<"S">>
Unknown == <<"U", "n", "k", "n", "o", "w", "n">>
ErrorPrefix == <<"E", "r", "r", "o", "r", ":", " ">>
InvalidFormat == <<"I", "n", "v", "a", "l", "i", "d", " ", "r", "e", "s", "p", "o", "n", "s", "e", " ",
                   "f", "o", "r", "m", "a", "t">>
\* str(e) of a json.JSONDecodeError
JsonErrorText == <<"E", "x", "p", "e", "c", "t", "i", "n", "g", " ", "v", "a", "l", "u", "e">>

\* re.search(r'{.*}', content): the leftmost "{" that has a "}" after it on
\* its line, up to the last "}" of that line; <<>> when there is none
ReSearch(content) ==
    LET closes(i) == {j \in DOMAIN content :
                        j > i /\ content[j] = "}" /\ \A h \in i..j : content[h] # "\n"}
        starts == {i \in DOMAIN content : content[i] = "{" /\ closes(i) # {}}
        i0 == CHOOSE i \in starts : \A h \in starts : i <= h
        j0 == CHOOSE j \in closes(i0) : \A h \in closes(i0) : h <= j
    IN  IF starts = {} THEN None ELSE V(SubSeq(content, i0, j0))

\* json.loads of a text that starts with "{" and ends with "}": the dict, or
\* None when the text is no JSON object
JsonLoads(text) ==
    LET inner == SubSeq(text, 2, Len(text) - 1)
        toks == SelectIdx(inner, [i \in 1..Len(inner) |-> ~IsSpace(inner[i])])
        wellFormed == \/ toks = <<>>
                      \/ /\ Len(toks) % 2 = 1
                         /\ \A i \in DOMAIN toks :
                               IF i % 2 = 1 THEN toks[i] \in {"A", "C"} ELSE toks[i] = ","
    IN  IF ~wellFormed THEN None
        ELSE V([k \in {key \in {"answer", "citation"} :
                            \/ key = "answer" /\ "A" \in Range(toks)
                            \/ key = "citation" /\ "C" \in Range(toks)}
                  |-> IF k = "answer" THEN AnswerText ELSE CitationText])

\* a response that carries a trace_id of its own
LLMResponse_own_trace(message, response, citation) ==
    [sender |-> "LLMResponseAgent",
     receiver |-> "CoordinatorAgent",
     type |-> "LLM_RESPONSE",
     trace_id |-> "t1",
     payload |-> [response |-> response,
                  citation |-> citation,
                  query |-> message.payload.user_query]]

LLMResponse(message, response, citation) ==
    [sender |-> "LLMResponseAgent",
     receiver |-> "CoordinatorAgent",
     type |-> "LLM_RESPONSE",
     trace_id |-> message.trace_id,
     payload |-> [response |-> response,
                  citation |-> citation,
                  query |-> message.payload.user_query]]

\* formatted_chunks of the prompt
formatted_chunks(message) ==
    LET top_chunks == message.payload.top_chunks
    IN  [k \in 1..Len(top_chunks) |->
            <<"[", "C", "h", "u", "n", "k", " ">> \o IntToStr((k - 1) + 1)
            \o <<" ", "|", " ", "C", "i", "t", "a", "t", "i", "o", "n", ":", " ">>
            \o format_citation(Get(top_chunks[k], "metadata"))
            \o <<"]", ",", " ", "t", "e", "x", "t", ":", " ">>
            \o Strip(top_chunks[k].text)]

\* the body of the try block: outcome is what the completion call does,
\* [kind |-> "fail", text |-> str(e)] or [kind |-> "content", raw |-> tokens]
try_generate(message, outcome) ==
    IF outcome.kind = "fail"
    THEN [kind |-> "raise", text |-> outcome.text]
    ELSE LET content == Strip(outcome.raw)
             match == ReSearch(content)
             parsed == JsonLoads(Val(match))
         IN  IF match = None
             THEN [kind |-> "raise", text |-> InvalidFormat]
             ELSE IF parsed = None
             THEN [kind |-> "raise", text |-> JsonErrorText]
             ELSE [kind |-> "message",
                   val |-> LLMResponse(message,
                              IF "answer" \in DOMAIN Val(parsed) THEN Val(parsed).answer ELSE <<>>,
                              IF "citation" \in DOMAIN Val(parsed) THEN Val(parsed).citation
                              ELSE Unknown)]

\* a generate whose except clause catches ValueError only: the failure of
\* the completion call escapes
generate_except_value_error(message, outcome) ==
    LET body == try_generate(message, outcome)
    IN  IF body.kind = "raise" /\ outcome.kind # "fail"
        THEN [kind |-> "message", val |-> LLMResponse(message, ErrorPrefix \o body.text, Unknown)]
        ELSE body

\* generate: what the call returns or raises; "except Exception" turns every
\* failure of the try block into an error response
generate(message, outcome) ==
    LET body == try_generate(message, outcome)
    IN  IF body.kind = "raise"
        THEN [kind |-> "message", val |-> LLMResponse(message, ErrorPrefix \o body.text, Unknown)]
        ELSE body

(***************************************************************************)
(* The inputs of the model.                                                *)
(***************************************************************************)
TraceIds == {"t1", "t2"}

PathTxt == <<"d", "/", "a", ".", "t", "x", "t">>
PathCsv == <<"b", ".", "C", "S", "V">>
PathExe == <<"c", ".", "e", "x", "e">>
Paths == {PathTxt, PathCsv, PathExe}

Words == {"x", "y"}

RECURSIVE SumSeq(_)
SumSeq(s) == IF s = <<>> THEN 0 ELSE Head(s) + SumSeq(Tail(s))

PathSeqs == UNION {[1..n -> Paths] : n \in 0..MaxFiles}

\* the number of sentences of each paragraph of a text file
TxtShapes ==
    UNION {{sh \in [1..n -> 1..MaxChunks] : SumSeq(sh) <= MaxChunks} : n \in 0..MaxChunks}

\* the text of a file: its paragraphs are indented and a blank line apart,
\* and the file ends with a new line
TxtRaw(shape, w) ==
    Join(<<"\n", " ", "\n">>,
         [i \in 1..Len(shape) |-> <<" ">> \o Join(<<" ">>, [j \in 1..shape[i] |-> <<w, ".">>])])
    \o <<"\n">>

TxtReads == {[kind |-> "txt", raw |-> TxtRaw(sh, w)] : sh \in TxtShapes, w \in Words}

CsvReads ==
    {[kind |-> "csv", df |-> [columns |-> <<V(<<"k">>)>>, rows |-> [r \in 1..n |-> <<V(<<"x">>)>>]]] :
        n \in 0..MaxChunks}

ErrorRead == [kind |-> "error"]

\* what the library may hand back for each path: a file of the kind its
\* extension names, or a failure to read it
ReadsFor ==
    [path \in Paths |->
        CASE ParserOf(path) = "txt" -> TxtReads \cup {ErrorRead}
          [] ParserOf(path) = "csv" -> CsvReads \cup {ErrorRead}
          [] OTHER -> {ErrorRead}]

\* the files preprocess gets to: those up to the first one that fails
FilesRead(file_paths, reads) ==
    {file_paths[k] : k \in {h \in DOMAIN file_paths :
                              \A g \in 1..(h - 1) : parse_file(file_paths[g], reads[file_paths[g]]).ok}}

\* the reads of the files of one request
ReadChoices(file_paths) ==
    {[p \in FilesRead(file_paths, reads) |-> reads[p]] :
        reads \in {rd \in [Range(file_paths) -> TxtReads \cup CsvReads \cup {ErrorRead}] :
                     \A p \in DOMAIN rd : rd[p] \in ReadsFor[p]}}

FileReads == [fp \in PathSeqs |-> ReadChoices(fp)]


UIMessage(type, trace_id, payload) ==
    [sender |-> "UI", receiver |-> "CoordinatorAgent", type |-> type,
     trace_id |-> trace_id, payload |-> payload]

IngestionRequests ==
    {UIMessage("INGESTION_REQUEST", t, [file_paths |-> fp]) : t \in TraceIds, fp \in PathSeqs}

DeleteNames == {basename(PathTxt), basename(PathCsv), <<"a">>}

DeleteRequests ==
    {UIMessage("DELETEFROM_DB", t, [source_file |-> f]) : t \in TraceIds, f \in DeleteNames}

Queries == {<<"x">>, <<"y">>}

RetrievalRequests ==
    {UIMessage("RETRIEVAL_REQUEST", t, [user_query |-> q]) : t \in TraceIds, q \in Queries}

SampleChunk ==
    [text |-> V(<<"x", ".">>), source_file |-> V(basename(PathTxt)),
     sentence |-> V(1), paragraph |-> V(1), type |-> V("sentence")]

\* messages of the other declared types, of an undeclared type and of no type
OtherMessages ==
    {UIMessage("ADDTO_DB", t, [chunks |-> <<SampleChunk>>]) : t \in TraceIds}
    \cup {UIMessage("LLM_REQUEST", t, [top_chunks |-> <<>>, user_query |-> q]) :
            t \in TraceIds, q \in Queries}
    \cup {UIMessage(ty, t, [response |-> AnswerText, citation |-> Unknown, query |-> q]) :
            ty \in {"LLM_RESPONSE", "BOGUS"}, t \in TraceIds, q \in Queries}
    \cup {[sender |-> "UI", receiver |-> "CoordinatorAgent", trace_id |-> t,
           payload |-> [source_file |-> basename(PathTxt)]] : t \in TraceIds}

\* what the completion call may do
LLMOutcomes ==
    {[kind |-> "fail", text |-> <<"t", "i", "m", "e", "o", "u", "t">>]}
    \cup {[kind |-> "content", raw |-> r] :
            r \in {<<"{", "A", ",", "C", "}">>,
                   <<"{", "A", "}">>,
                   <<"p", " ", "{", "A", ",", "C", "}", " ", "p", "\n">>,
                   <<"p", "p">>,
                   <<"{", "p", "}">>,
                   <<"{", "\n", "A", "\n", "}">>,
                   <<>>}}

(***************************************************************************)
(* agents/coordinator_agent.py: the state machine                          *)
(***************************************************************************)
VARIABLES
    store,      \* the collection "document_chunks"
    pc,         \* where handle_message stands: "idle", "add_chunks", "generate", "done"
    msg,        \* the message being handled
    reads,      \* what the parsing libraries handed back for the files of msg
    derived,    \* the message the first stage produced from msg
    completion, \* what the completion call of generate did
    result,     \* what handle_message returns or raises
    calls,      \* the stage operations invoked for msg, in order
    call        \* a helper function applied on its own: [fn, arg, done, ret]

vars == <<store, pc, msg, reads, derived, completion, result, calls, call>>

NoMsg == [none |-> TRUE]
Pending == [kind |-> "pending"]
PyNone == [kind |-> "None"]
NoCall == [fn |-> "none"]

\* message.get("type")
MsgType(m) == IF "type" \in DOMAIN m THEN m.type ELSE "None"

Init ==
    /\ store = <<>>
    /\ pc = "idle"
    /\ msg = NoMsg
    /\ reads = <<>>
    /\ derived = NoMsg
    /\ completion = Pending
    /\ result = Pending
    /\ calls = <<>>
    /\ call = NoCall

\* INGESTION_REQUEST, first step: self.ingestor.preprocess(message)
Preprocess(m, rd) ==
    /\ pc = "idle"
    /\ MsgType(m) = "INGESTION_REQUEST"
    /\ \E out \in {preprocess(m, rd)} :
           /\ out.kind = "message" =>
                Cardinality(DOMAIN store \cup Range(ChunkIds(out.val.payload.chunks))) <= MaxStore
           /\ msg' = m
           /\ reads' = rd
           /\ calls' = <<"preprocess">>
           /\ IF out.kind = "raise"
              THEN /\ pc' = "done"
                   /\ derived' = NoMsg
                   /\ result' = out
              ELSE /\ pc' = "add_chunks"
                   /\ derived' = out.val
                   /\ result' = Pending
    /\ UNCHANGED <<store, completion, call>>

\* INGESTION_REQUEST, second step: self.retriever.add_chunks(parsed_message)
AddChunks(emptyRaises) ==
    /\ pc = "add_chunks"
    /\ \E out \in {add_chunks(store, derived, emptyRaises)} :
           /\ store' = out.coll
           /\ result' = out.ret
    /\ calls' = Append(calls, "add_chunks")
    /\ pc' = "done"
    /\ UNCHANGED <<msg, reads, derived, completion, call>>

\* DELETEFROM_DB: self.retriever.delete_file(message)
DeleteFile(m) ==
    /\ pc = "idle"
    /\ MsgType(m) = "DELETEFROM_DB"
    /\ \E out \in {delete_file(store, m)} :
           /\ store' = out.coll
           /\ result' = out.ret
    /\ msg' = m
    /\ calls' = <<"delete_file">>
    /\ pc' = "done"
    /\ UNCHANGED <<reads, derived, completion, call>>

\* a RETRIEVAL_REQUEST answered with the LLM_REQUEST, without synthesis
Query_no_synthesis(m, ranking) ==
    /\ pc = "idle"
    /\ MsgType(m) = "RETRIEVAL_REQUEST"
    /\ msg' = m
    /\ derived' = query(store, m, ranking)
    /\ calls' = <<"query">>
    /\ pc' = "done"
    /\ result' = [kind |-> "message", val |-> query(store, m, ranking)]
    /\ UNCHANGED <<store, reads, completion, call>>

\* RETRIEVAL_REQUEST, first step: self.retriever.query(message)
Query(m, ranking) ==
    /\ pc = "idle"
    /\ MsgType(m) = "RETRIEVAL_REQUEST"
    /\ msg' = m
    /\ derived' = query(store, m, ranking)
    /\ calls' = <<"query">>
    /\ pc' = "generate"
    /\ UNCHANGED <<store, reads, completion, result, call>>

\* RETRIEVAL_REQUEST, second step: self.llm.generate(retrieval_response)
Generate(outcome) ==
    /\ pc = "generate"
    /\ completion' = outcome
    /\ result' = generate(derived, outcome)
    /\ calls' = Append(calls, "generate")
    /\ pc' = "done"
    /\ UNCHANGED <<store, msg, reads, derived, call>>

\* a dispatcher that forwards an ADDTO_DB message to add_chunks
Unknown_type_forward(m) ==
    /\ pc = "idle"
    /\ MsgType(m) \notin {"INGESTION_REQUEST", "DELETEFROM_DB", "RETRIEVAL_REQUEST"}
    /\ msg' = m
    /\ pc' = "done"
    /\ IF MsgType(m) = "ADDTO_DB"
       THEN /\ store' = add_chunks(store, m, FALSE).coll
            /\ result' = add_chunks(store, m, FALSE).ret
            /\ calls' = <<"add_chunks">>
       ELSE /\ result' = PyNone
            /\ UNCHANGED <<store, calls>>
    /\ UNCHANGED <<reads, derived, completion, call>>

\* any other type: print and return None
Unknown_type(m) ==
    /\ pc = "idle"
    /\ MsgType(m) \notin {"INGESTION_REQUEST", "DELETEFROM_DB", "RETRIEVAL_REQUEST"}
    /\ msg' = m
    /\ result' = PyNone
    /\ pc' = "done"
    /\ UNCHANGED <<store, reads, derived, completion, calls, call>>

\* handle_message has returned (or raised) to its caller
Return ==
    /\ pc = "done"
    /\ pc' = "idle"
    /\ msg' = NoMsg
    /\ reads' = <<>>
    /\ derived' = NoMsg
    /\ completion' = Pending
    /\ result' = Pending
    /\ calls' = <<>>
    /\ UNCHANGED <<store, call>>

Next ==
    \/ /\ pc = "idle"
       /\ \E m \in IngestionRequests :
             \E rd \in FileReads[m.payload.file_paths] : Preprocess(m, rd)
    \/ \E emptyRaises \in BOOLEAN : AddChunks(emptyRaises)
    \/ \E m \in DeleteRequests : DeleteFile(m)
    \/ /\ pc = "idle"
       /\ \E m \in RetrievalRequests :
             \E ranking \in Rankings(store, Embed(m.payload.user_query), top_k) : Query(m, ranking)
    \/ \E outcome \in LLMOutcomes : Generate(outcome)
    \/ \E m \in OtherMessages : Unknown_type(m)
    \/ Return

Spec == Init /\ [][Next]_vars

(***************************************************************************)
(* generate on its own: handle_message stands before the synthesis step    *)
(* of a RETRIEVAL_REQUEST, and the completion call returns any text of at  *)
(* most MaxContent tokens or fails.                                        *)
(***************************************************************************)
MaxContent == 4

LLMTokens == {"{", "}", ",", " ", "\n", "p", "A", "C"}

GenOutcomes ==
    {[kind |-> "fail", text |-> t] : t \in {<<>>, <<"t", "i", "m", "e", "o", "u", "t">>}}
    \cup {[kind |-> "content", raw |-> r] : r \in UNION {[1..n -> LLMTokens] : n \in 0..MaxContent}}

\* the collection after the sample chunk has been stored
SampleStore == add_chunks(<<>>, [payload |-> [chunks |-> <<SampleChunk>>]], FALSE).coll

\* two queries, each under a trace_id of its own
GenRequests ==
    {UIMessage("RETRIEVAL_REQUEST", "t1", [user_query |-> <<"x">>]),
     UIMessage("RETRIEVAL_REQUEST", "t2", [user_query |-> <<"y">>])}

InitGen ==
    /\ store = SampleStore
    /\ pc = "generate"
    /\ msg \in GenRequests
    /\ reads = <<>>
    /\ derived \in {query(store, msg, r) : r \in Rankings(store, Embed(msg.payload.user_query), top_k)}
    /\ completion = Pending
    /\ result = Pending
    /\ calls = <<"query">>
    /\ call = NoCall

NextGen == \E outcome \in GenOutcomes : Generate(outcome)

GenSpec == InitGen /\ [][NextGen]_vars

(***************************************************************************)
(* format_citation on its own, applied to every mapping that gives each    *)
(* of its keys no entry, None or a value.                                  *)
(***************************************************************************)
CitationKeys == {"page", "paragraph", "slide", "table", "row", "source_file", "sentence", "type"}

SampleValue(key) ==
    CASE key = "page" -> V(2)
      [] key = "paragraph" -> V(4)
      [] key = "slide" -> V(10)
      [] key = "table" -> V(1)
      [] key = "row" -> V(3)
      [] key = "sentence" -> V(5)
      [] key = "source_file" -> V(<<"a", "b", "c", ".", "p", "d", "f">>)
      [] key = "type" -> V("sentence")

Metadatas ==
    UNION {{[k \in S |-> IF k \in N THEN None ELSE SampleValue(k)] : N \in SUBSET S} :
             S \in SUBSET CitationKeys}

CallFormatCitation(meta) ==
    /\ call = NoCall
    /\ call' = [fn |-> "format_citation", arg |-> meta, ret |-> format_citation(meta)]
    /\ UNCHANGED <<store, pc, msg, reads, derived, completion, result, calls>>

CallReturn ==
    /\ call # NoCall
    /\ call' = NoCall
    /\ UNCHANGED <<store, pc, msg, reads, derived, completion, result, calls>>

NextCite ==
    \/ \E meta \in Metadatas : CallFormatCitation(meta)
    \/ CallReturn

CiteSpec == Init /\ [][NextCite]_vars

(***************************************************************************)
(* Properties.                                                             *)
(***************************************************************************)
\* the ids of the records of a file
FileIds(coll, f) == {i \in DOMAIN coll : coll[i].metadata.source_file = V(f)}

\* C1: delete_file for source_file f removes every record whose metadata
\* source_file equals f and no other record, and returns its status; when no
\* record matches, the collection is left as it was.
C1_DeleteRemovesExactlyTheFile ==
    [][(pc = "idle" /\ pc' = "done" /\ MsgType(msg') = "DELETEFROM_DB") =>
          LET f == msg'.payload.source_file
              matching == {i \in DOMAIN store : Val(store[i].metadata.source_file) = f}
          IN  /\ DOMAIN store' = DOMAIN store \ matching
              /\ \A i \in DOMAIN store' : store'[i] = store[i]
              /\ result'.kind = "str"
              /\ matching = {} => store' = store]_vars

\* a delete of a name that is a proper prefix of a stored file's name has
\* returned and the records of that file are still there
C1_Witness ==
    /\ pc = "done"
    /\ MsgType(msg) = "DELETEFROM_DB"
    /\ msg.payload.source_file = <<"a">>
    /\ result.kind = "str"
    /\ FileIds(store, basename(PathTxt)) # {}
    /\ FileIds(store, basename(PathCsv)) # {}

\* C2: once add_chunks has stored a batch, storing the same batch again
\* leaves the collection exactly as it is: same ids, same records.
C2_UpsertIdempotent ==
    (pc = "done" /\ calls = <<"preprocess", "add_chunks">>) =>
        \A e \in BOOLEAN :
            LET again == add_chunks(store, derived, e).coll
            IN  /\ again = store
                /\ Cardinality(DOMAIN again) = Cardinality(DOMAIN store)

\* a batch of one chunk has been stored next to a record of another file
C2_Witness ==
    /\ pc = "done"
    /\ calls = <<"preprocess", "add_chunks">>
    /\ result.kind = "str"
    /\ Len(derived.payload.chunks) = 1
    /\ Cardinality(DOMAIN store) = 2
    /\ Cardinality(list_files(store)) = 2

\* C3: a message of any other type than INGESTION_REQUEST, DELETEFROM_DB and
\* RETRIEVAL_REQUEST, or of no type, is answered with None: nothing is
\* raised, no stage is invoked and the collection is not changed.
C3_UnknownTypeIsIgnored ==
    [][(pc = "idle" /\ pc' # "idle"
        /\ MsgType(msg') \notin {"INGESTION_REQUEST", "DELETEFROM_DB", "RETRIEVAL_REQUEST"}) =>
          /\ pc' = "done"
          /\ result' = PyNone
          /\ calls' = <<>>
          /\ derived' = NoMsg
          /\ store' = store]_vars

\* an ADDTO_DB message that carries a chunk has been answered with None
C3_Witness ==
    /\ pc = "done"
    /\ MsgType(msg) = "ADDTO_DB"
    /\ msg.payload.chunks # <<>>
    /\ result = PyNone
    /\ store # <<>>

\* C4: every message derived while a request is handled (the ADDTO_DB of
\* ingestion, the LLM_REQUEST of query, the LLM_RESPONSE of synthesis, on
\* success and on failure) carries the trace_id of the request.
C4_TraceIdPropagated ==
    /\ (pc # "idle" /\ derived # NoMsg) =>
          /\ derived.trace_id = msg.trace_id
          /\ derived.type = IF MsgType(msg) = "INGESTION_REQUEST" THEN "ADDTO_DB" ELSE "LLM_REQUEST"
    /\ (pc # "idle" /\ result.kind = "message") =>
          /\ result.val.trace_id = msg.trace_id
          /\ result.val.type = "LLM_RESPONSE"

\* synthesis has failed for a request of trace_id t2 and has answered it
C4_Witness ==
    /\ pc = "done"
    /\ MsgType(msg) = "RETRIEVAL_REQUEST"
    /\ msg.trace_id = "t2"
    /\ completion.kind = "fail"
    /\ result.kind = "message"
    /\ derived.payload.top_chunks # <<>>

\* the text holds no JSON object: whatever runs from a "{" to a later "}"
\* does not parse
NoJsonObject(raw) ==
    \A i, j \in DOMAIN raw :
        (i < j /\ raw[i] = "{" /\ raw[j] = "}") => JsonLoads(SubSeq(raw, i, j)) = None

\* C5: generate never raises on an LLM_REQUEST; when the completion call
\* fails or its text holds no brace-delimited JSON that parses, the result is
\* an LLM_RESPONSE whose response begins with "Error:", whose citation is
\* "Unknown" and whose query is the request's user_query.
C5_SynthesisFailureIsAnErrorResponse ==
    (pc = "done" /\ calls = <<"query", "generate">>) =>
        /\ result.kind = "message"
        /\ result.val.type = "LLM_RESPONSE"
        /\ result.val.payload.query = derived.payload.user_query
        /\ result.val.payload.query = msg.payload.user_query
        /\ (completion.kind = "fail" \/ NoJsonObject(completion.raw)) =>
              /\ StartsWith(result.val.payload.response, <<"E", "r", "r", "o", "r", ":">>)
              /\ result.val.payload.citation = <<"U", "n", "k", "n", "o", "w", "n">>

\* the model has returned braces around something that is no JSON
C5_Witness ==
    /\ pc = "done"
    /\ calls = <<"query", "generate">>
    /\ completion.kind = "content"
    /\ completion.raw = <<"p", "{", "p", "}">>
    /\ StartsWith(result.val.payload.response, <<"E", "r", "r", "o", "r", ":">>)

\* C6: an INGESTION_REQUEST is handled as preprocess and then, on the
\* ADDTO_DB message preprocess produced, one add_chunks; a RETRIEVAL_REQUEST
\* as one query and then, on the LLM_REQUEST it produced, one generate; a
\* DELETEFROM_DB as one delete_file; no other stage is invoked, and the second
\* step is not taken before the first has produced its message.  (An
\* ingestion whose preprocess raises ends there.)
C6_OneDirectionalPipeline ==
    /\ pc \in {"idle", "add_chunks", "generate", "done"}
    /\ pc = "idle" => calls = <<>>
    /\ pc = "add_chunks" =>
          /\ MsgType(msg) = "INGESTION_REQUEST"
          /\ calls = <<"preprocess">>
          /\ derived # NoMsg /\ derived.type = "ADDTO_DB"
    /\ pc = "generate" =>
          /\ MsgType(msg) = "RETRIEVAL_REQUEST"
          /\ calls = <<"query">>
          /\ derived # NoMsg /\ derived.type = "LLM_REQUEST"
    /\ (pc = "done" /\ MsgType(msg) = "INGESTION_REQUEST") =>
          \/ calls = <<"preprocess", "add_chunks">> /\ derived # NoMsg /\ derived.type = "ADDTO_DB"
          \/ calls = <<"preprocess">> /\ derived = NoMsg /\ result.kind = "raise"
    /\ (pc = "done" /\ MsgType(msg) = "RETRIEVAL_REQUEST") =>
          /\ calls = <<"query", "generate">>
          /\ derived # NoMsg /\ derived.type = "LLM_REQUEST"
          /\ result.kind = "message" /\ result.val.type = "LLM_RESPONSE"
    /\ (pc = "done" /\ MsgType(msg) = "DELETEFROM_DB") =>
          calls = <<"delete_file">> /\ derived = NoMsg

\* a retrieval over a collection of several records has been synthesised
C6_Witness ==
    /\ pc = "done"
    /\ MsgType(msg) = "RETRIEVAL_REQUEST"
    /\ calls = <<"query", "generate">>
    /\ Len(derived.payload.top_chunks) >= 2
    /\ completion.kind = "content"

IsMessage(r) ==
    r.kind = "message" /\ DOMAIN r.val = {"sender", "receiver", "type", "trace_id", "payload"}

\* C7: what handle_message returns is a message or None; for an
\* INGESTION_REQUEST and a DELETEFROM_DB it is a message.
C7_ReturnsMessageOrNone ==
    (pc = "done" /\ result.kind # "raise") =>
        /\ IsMessage(result) \/ result = PyNone
        /\ MsgType(msg) \in {"INGESTION_REQUEST", "DELETEFROM_DB"} => IsMessage(result)

\* C8: when a file of an INGESTION_REQUEST fails to parse (an extension that
\* is not supported, or a read that raises), handle_message raises, no chunk
\* of the batch is stored and the collection is as it was before the request,
\* also when files before the failing one parsed.
C8_NoPartialIngestion ==
    [][(pc = "idle" /\ pc' # "idle" /\ MsgType(msg') = "INGESTION_REQUEST"
        /\ \E p \in DOMAIN reads' : ~parse_file(p, reads'[p]).ok) =>
          /\ pc' = "done"
          /\ result'.kind = "raise"
          /\ calls' = <<"preprocess">>
          /\ store' = store]_vars

\* the second file of a batch has failed after the first one parsed into
\* chunks
C8_Witness ==
    /\ pc = "done"
    /\ MsgType(msg) = "INGESTION_REQUEST"
    /\ result.kind = "raise"
    /\ Len(msg.payload.file_paths) = 2
    /\ LET first == parse_file(msg.payload.file_paths[1], reads[msg.payload.file_paths[1]])
       IN  first.ok /\ chunk_text_data(first.entries) # <<>>
    /\ store # <<>>

\* the batch holds chunks of the one file f only
BatchOf(chunks, f) == chunks # <<>> /\ \A k \in DOMAIN chunks : chunks[k].source_file = V(f)

\* C9: when the collection holds the n records f_0 .. f_(n-1) of a file f and
\* add_chunks stores a batch of m < n chunks of f, the records at the
\* ordinals m .. n-1 stay as they were and f still has n records, not m.
C9_ShorterBatchLeavesStaleRecords ==
    [][(pc = "add_chunks" /\ pc' = "done" /\ result'.kind = "str") =>
          \A f \in {basename(q) : q \in Paths} :
              LET chunks == derived.payload.chunks
                  m == Len(chunks)
                  n == Cardinality(FileIds(store, f))
              IN  (/\ BatchOf(chunks, f)
                   /\ m < n
                   /\ FileIds(store, f) = {f \o <<"_">> \o IntToStr(j) : j \in 0..(n - 1)}) =>
                      /\ Cardinality(FileIds(store', f)) = n
                      /\ \A j \in m..(n - 1) :
                            store'[f \o <<"_">> \o IntToStr(j)] = store[f \o <<"_">> \o IntToStr(j)]
                      /\ \A j \in 0..(m - 1) :
                            store'[f \o <<"_">> \o IntToStr(j)].document = Val(chunks[j + 1].text)]_vars

\* a batch of one chunk of a file has been stored and the file has two
\* records
C9_Witness ==
    /\ pc = "done"
    /\ calls = <<"preprocess", "add_chunks">>
    /\ result.kind = "str"
    /\ BatchOf(derived.payload.chunks, basename(PathTxt))
    /\ Len(derived.payload.chunks) = 1
    /\ Cardinality(FileIds(store, basename(PathTxt))) = 2
    /\ store[basename(PathTxt) \o <<"_", "1">>].document # store[basename(PathTxt) \o <<"_", "0">>].document

CitationOrder == <<"page", "paragraph", "slide", "table", "row", "source_file">>

CitationLabel(key) ==
    CASE key = "page" -> <<"P", "a", "g", "e", " ">>
      [] key = "paragraph" -> <<"P", "a", "r", "a", " ">>
      [] key = "slide" -> <<"S", "l", "i", "d", "e", " ">>
      [] key = "table" -> <<"T", "a", "b", "l", "e", " ">>
      [] key = "row" -> <<"R", "o", "w", " ">>
      [] key = "source_file" -> <<"S", "o", "u", "r", "c", "e", ":", " ">>

Present(meta, key) == key \in DOMAIN meta /\ meta[key] # None

\* the parts of the present fields, in the fixed order, joined with ", "
ExpectedCitation(meta) ==
    LET present == SelectIdx(CitationOrder,
                             [i \in 1..Len(CitationOrder) |-> Present(meta, CitationOrder[i])])
    IN  Join(<<",", " ">>,
             [i \in 1..Len(present) |->
                 CitationLabel(present[i])
                 \o (IF present[i] = "source_file" THEN Val(meta[present[i]])
                     ELSE IntToStr(Val(meta[present[i]])))])

\* C10: format_citation gives the parts of the present (non-None) fields
\* among page, paragraph, slide, table, row, source_file, in that order,
\* joined with ", ", and "Unknown" exactly when none of them is present;
\* {page: 2, paragraph: 4, source_file: "abc.pdf"} gives
\* "Page 2, Para 4, Source: abc.pdf".
C10_CitationFormat ==
    call.fn = "format_citation" =>
        LET meta == call.arg
            nonePresent == \A i \in DOMAIN CitationOrder : ~Present(meta, CitationOrder[i])
        IN  /\ ~nonePresent => call.ret = ExpectedCitation(meta)
            /\ nonePresent <=> call.ret = <<"U", "n", "k", "n", "o", "w", "n">>
            /\ meta = [page |-> V(2), paragraph |-> V(4),
                       source_file |-> V(<<"a", "b", "c", ".", "p", "d", "f">>)] =>
                  call.ret = <<"P", "a", "g", "e", " ", "2", ",", " ", "P", "a", "r", "a", " ", "4",
                               ",", " ", "S", "o", "u", "r", "c", "e", ":", " ",
                               "a", "b", "c", ".", "p", "d", "f">>

\* a mapping with a None page, a table, a row and a source_file has been
\* formatted
C10_Witness ==
    /\ call.fn = "format_citation"
    /\ call.arg = [page |-> None, table |-> V(1), row |-> V(3), type |-> V("sentence"),
                   source_file |-> V(<<"a", "b", "c", ".", "p", "d", "f">>)]
    /\ call.ret = <<"T", "a", "b", "l", "e", " ", "1", ",", " ", "R", "o", "w", " ", "3", ",", " ",
                    "S", "o", "u", "r", "c", "e", ":", " ", "a", "b", "c", ".", "p", "d", "f">>

(***************************************************************************)
(* chunk_text_data on its own, applied to every list of at most            *)
(* MaxRecords pre-chunk records.                                           *)
(***************************************************************************)
MaxRecords == 2

\* the positional metadata of a record: none, some, all, and a page of None
Wheres ==
    {<<>>, [paragraph |-> V(1)], [slide |-> V(4)],
     [page |-> V(2), paragraph |-> V(3), slide |-> V(4)], [page |-> None]}

\* texts of no sentence, one sentence and two sentences
ChunkTexts ==
    {<<" ">>, <<"x", ".">>, <<"y">>, <<"x", ".", " ", "y", ".">>}

PreChunks ==
    {[text |-> V(t), source_file |-> V(basename(PathTxt)), type |-> V("txt_paragraph")] @@ w :
        t \in ChunkTexts, w \in Wheres}
    \cup {[text |-> V(<<"k", ":", " ", "x", ".", " ", "y", ".">>), source_file |-> V(basename(PathCsv)),
           row |-> V(r), type |-> V("csv_row")] : r \in {2}}
    \cup {[text |-> V(<<"k", ":", " ", "x", ".", " ", "y", ".">>), source_file |-> V(basename(PathTxt)),
           table |-> V(1), row |-> V(1), type |-> V("table_row")] @@ w :
            w \in {<<>>, [page |-> V(2)]}}

PreChunkLists == UNION {[1..n -> PreChunks] : n \in 0..MaxRecords}

CallChunkTextData(parsed_data) ==
    /\ call = NoCall
    /\ call' = [fn |-> "chunk_text_data", arg |-> parsed_data, ret |-> chunk_text_data(parsed_data)]
    /\ UNCHANGED <<store, pc, msg, reads, derived, completion, result, calls>>

NextChunk ==
    \/ \E parsed_data \in PreChunkLists : CallChunkTextData(parsed_data)
    \/ CallReturn

ChunkSpec == Init /\ [][NextChunk]_vars

\* the number of chunks a record is to give
ChunksDue(entry) ==
    IF Val(entry.type) \in {"table_row", "csv_row"} THEN 1
    ELSE Len(sent_tokenize(Val(entry.text)))

\* C11: chunk_text_data returns, record after record in the order of the
\* input, the record itself when its type is table_row or csv_row, and
\* otherwise one chunk for each sentence of its text in reading order, with
\* sentence 1..n, type "sentence", the record's source_file and those of
\* page, paragraph, slide the record has, and nothing else; a text of no
\* sentence gives no chunk.
C11_ChunkTextData ==
    call.fn = "chunk_text_data" =>
        LET inp == call.arg
            out == call.ret
            due == [e \in 1..Len(inp) |-> ChunksDue(inp[e])]
            offset(e) == SumSeq(SubSeq(due, 1, e - 1))
        IN  /\ Len(out) = SumSeq(due)
            /\ \A e \in 1..Len(inp) : \A j \in 1..due[e] :
                  LET chunk == out[offset(e) + j]
                      entry == inp[e]
                  IN  IF Val(entry.type) \in {"table_row", "csv_row"}
                      THEN chunk = entry
                      ELSE /\ DOMAIN chunk = {"text", "source_file", "sentence", "type"}
                                             \cup ({"page", "paragraph", "slide"} \cap DOMAIN entry)
                           /\ chunk.text = V(sent_tokenize(Val(entry.text))[j])
                           /\ chunk.sentence = V(j)
                           /\ chunk.type = V("sentence")
                           /\ chunk.source_file = entry.source_file
                           /\ \A key \in {"page", "paragraph", "slide"} \cap DOMAIN entry :
                                 chunk[key] = entry[key]

\* a record of two sentences with a page and a slide, after a table row and
\* before a record of no sentence, has been chunked
C11_Witness ==
    /\ call.fn = "chunk_text_data"
    /\ Len(call.arg) = 2
    /\ Val(call.arg[1].type) = "table_row"
    /\ call.arg[2].text = V(<<"x", ".", " ", "y", ".">>)
    /\ {"page", "slide"} \subseteq DOMAIN call.arg[2]
    /\ Len(call.ret) = 3
    /\ call.ret[3].text = V(<<"y", ".">>)
    /\ call.ret[3].sentence = V(2)

(***************************************************************************)
(* add_chunks and then query on their own: a batch of at most MaxBatch     *)
(* chunks is stored in the empty collection and the collection is queried. *)
(***************************************************************************)
MaxBatch == 2

\* the chunks chunk_text_data makes of the pre-chunk records of two
\* sentences and of the rows
StoredChunks ==
    UNION {Range(chunk_text_data(<<p>>)) :
             p \in {q \in PreChunks : \/ Val(q.type) \in {"table_row", "csv_row"}
                                      \/ q.text = V(<<"x", ".", " ", "y", ".">>)}}

\* chunks of files whose names end, or do not, in "_" and digits, so that a
\* name is the start of an id of another
SuffixedChunks ==
    {[text |-> V(<<"x", ".">>), source_file |-> V(name), sentence |-> V(1), paragraph |-> V(1),
      type |-> V("sentence")] :
        name \in {<<"a">>, <<"a", "_", "1">>}}

Batches ==
    {[sender |-> "IngestionAgent", receiver |-> "RetrievalAgent", type |-> "ADDTO_DB",
      trace_id |-> "t1", payload |-> [chunks |-> chunks]] :
        chunks \in UNION {[1..n -> StoredChunks \cup SuffixedChunks] : n \in 0..MaxBatch}}

CallAddChunks(message, emptyRaises) ==
    /\ call = NoCall
    /\ store = <<>>
    /\ \E out \in {add_chunks(store, message, emptyRaises)} :
          /\ store' = out.coll
          /\ call' = [fn |-> "add_chunks", arg |-> message, ret |-> out.ret]
    /\ UNCHANGED <<pc, msg, reads, derived, completion, result, calls>>

\* batch is the message add_chunks was called with before
CallQuery(message, ranking) ==
    /\ call.fn = "add_chunks"
    /\ call' = [fn |-> "query", arg |-> message, batch |-> call.arg,
                ret |-> query(store, message, ranking)]
    /\ UNCHANGED <<store, pc, msg, reads, derived, completion, result, calls>>

NextRoundTrip ==
    \/ \E message \in Batches, emptyRaises \in BOOLEAN : CallAddChunks(message, emptyRaises)
    \/ \E message \in GenRequests :
          \E ranking \in Rankings(store, Embed(message.payload.user_query), top_k) :
              CallQuery(message, ranking)

RoundTripSpec == Init /\ [][NextRoundTrip]_vars

\* metadata is the projection of chunk: source_file, type and those of the
\* six keys the chunk has with a value other than None, each with that value
IsProjection(metadata, chunk) ==
    /\ DOMAIN metadata =
          {"source_file", "type"}
          \cup {key \in {"page", "paragraph", "slide", "row", "table", "sentence"} :
                  key \in DOMAIN chunk /\ chunk[key] # None}
    /\ \A key \in DOMAIN metadata : metadata[key] = chunk[key]

\* C12: every chunk a query returns has the text of a chunk of the stored
\* batch and, as its metadata, the projection of that chunk: source_file,
\* type and exactly those of page, paragraph, slide, row, table, sentence
\* that the chunk has with a value other than None, each with the chunk's
\* value; and every chunk of a batch of at most top_k chunks is returned so.
C12_MetadataRoundTrip ==
    call.fn = "query" =>
        LET chunks == call.batch.payload.chunks
            top == call.ret.payload.top_chunks
            same(t, chunk) == /\ DOMAIN t = {"text", "metadata"}
                              /\ t.text = Val(chunk.text)
                              /\ IsProjection(t.metadata, chunk)
        IN  /\ \A a \in DOMAIN top : \E k \in DOMAIN chunks : same(top[a], chunks[k])
            /\ Len(chunks) <= top_k =>
                  \A k \in DOMAIN chunks : \E a \in DOMAIN top : same(top[a], chunks[k])

\* a table row of a page and a sentence chunk whose page is None have been
\* stored and both have come back from a query
C12_Witness ==
    /\ call.fn = "query"
    /\ Len(call.batch.payload.chunks) = 2
    /\ Val(call.batch.payload.chunks[1].type) = "table_row"
    /\ "page" \in DOMAIN call.batch.payload.chunks[1]
    /\ Get(call.batch.payload.chunks[2], "page") = None
    /\ "page" \in DOMAIN call.batch.payload.chunks[2]
    /\ Len(call.ret.payload.top_chunks) = 2
    /\ \E a \in 1..2 : DOMAIN call.ret.payload.top_chunks[a].metadata = {"source_file", "type", "sentence"}

\* the JSON objects of a text: the places i..j where one stands
JsonObjects(raw) ==
    {p \in (DOMAIN raw) \X (DOMAIN raw) :
        /\ p[1] < p[2]
        /\ raw[p[1]] = "{"
        /\ raw[p[2]] = "}"
        /\ JsonLoads(SubSeq(raw, p[1], p[2])) # None}

\* C13: when the text of the model holds a JSON object with an answer key,
\* with prose before or after it on its line or on other lines, with or
\* without braces in the prose, generate returns an LLM_RESPONSE whose
\* response is the answer of the first JSON object of the text, whose
\* citation is that object's citation, or "Unknown" when it has none, and
\* whose query is the user_query.
C13_JsonExtractedFromProse ==
    (/\ pc = "done"
     /\ calls = <<"query", "generate">>
     /\ completion.kind = "content"
     /\ JsonObjects(completion.raw) # {}) =>
        LET objs == JsonObjects(completion.raw)
            first == CHOOSE p \in objs : \A q \in objs : p[1] <= q[1]
            parsed == Val(JsonLoads(SubSeq(completion.raw, first[1], first[2])))
        IN  "answer" \in DOMAIN parsed =>
                /\ result.kind = "message"
                /\ result.val.type = "LLM_RESPONSE"
                /\ result.val.payload.response = parsed.answer
                /\ result.val.payload.citation =
                      (IF "citation" \in DOMAIN parsed THEN parsed.citation
                       ELSE <<"U", "n", "k", "n", "o", "w", "n">>)
                /\ result.val.payload.query = derived.payload.user_query

(***************************************************************************)
(* parse_file on its own, applied to PDF, PPTX and DOCX files of at most   *)
(* MaxPages pages or slides and at most MaxTables tables (shapes) in each  *)
(* page, slide or document.                                                *)
(***************************************************************************)
MaxPages == 2
MaxTables == 2

PathPdf == <<"r", ".", "p", "d", "f">>
PathPptx == <<"s", ".", "p", "p", "t", "x">>
PathDocx == <<"d", ".", "d", "o", "c", "x">>

\* a table of a header row and one or two rows of data
TableCells ==
    {<< <<V(<<"k">>)>>, <<V(<<"x">>)>> >>,
     << <<V(<<"k">>)>>, <<V(<<"x">>)>>, <<V(<<"y">>)>> >>}

TableLists == UNION {[1..n -> TableCells] : n \in 0..MaxTables}

PdfReads ==
    {[kind |-> "pdf", pages |-> pages] :
        pages \in UNION {[1..n -> {[text |-> t, tables |-> ts] :
                                       t \in {None, V(<<"x", ".">>)}, ts \in TableLists}] :
                           n \in 0..MaxPages}}

\* the shapes of a slide: a text box or a table, in any order
Shapes ==
    {[has_table |-> FALSE, text |-> V(<<"x", ".">>), rows |-> <<>>]}
    \cup {[has_table |-> TRUE, text |-> None,
           rows |-> << <<V(<<"k">>)>>, <<V(<<"x">>)>>, <<V(<<"y">>)>> >>]}

PptxReads ==
    {[kind |-> "pptx", slides |-> slides] :
        slides \in UNION {[1..n -> UNION {[1..k -> Shapes] : k \in 0..MaxTables}] :
                            n \in 0..MaxPages}}

DocxReads ==
    {[kind |-> "docx", paragraphs |-> ps, tables |-> ts] :
        ps \in {<<>>, <<<<"x", ".">>>>}, ts \in TableLists}

CallParseFile(path, read) ==
    /\ call = NoCall
    /\ call' = [fn |-> "parse_file", arg |-> [path |-> path, read |-> read],
                ret |-> parse_file(path, read)]
    /\ UNCHANGED <<store, pc, msg, reads, derived, completion, result, calls>>

NextParse ==
    \/ \E read \in PdfReads \cup {ErrorRead} : CallParseFile(PathPdf, read)
    \/ \E read \in PptxReads : CallParseFile(PathPptx, read)
    \/ \E read \in DocxReads \cup {ErrorRead} : CallParseFile(PathDocx, read)
    \/ CallReturn

ParseSpec == Init /\ [][NextParse]_vars

\* the places the rows of the tables of a file stand at: scope (the page or
\* slide, 0 for a document), the 1-based index of the table in its scope and
\* the 1-based index of the row in its table
TablePlaces(read) ==
    LET \* the rows of data of the tables of one scope
        places(scope, tables) ==
            UNION {{<<scope, t, r>> : r \in 1..(Len(tables[t]) - 1)} : t \in DOMAIN tables}
        shapeTables(slide) ==
            LET shapes == SelectIdx(slide, [k \in DOMAIN slide |-> slide[k].has_table])
            IN  [t \in DOMAIN shapes |-> shapes[t].rows]
    IN  CASE read.kind = "pdf" ->
               UNION {places(p, read.pages[p].tables) : p \in DOMAIN read.pages}
          [] read.kind = "pptx" ->
               UNION {places(i, shapeTables(read.slides[i])) : i \in DOMAIN read.slides}
          [] read.kind = "docx" -> places(0, read.tables)

\* the places the table_row records of a result say they stand at
RecordPlaces(entries) ==
    {<<IF "page" \in DOMAIN entries[i] THEN Val(entries[i].page)
       ELSE IF "slide" \in DOMAIN entries[i] THEN Val(entries[i].slide)
       ELSE 0,
       Val(entries[i].table), Val(entries[i].row)>> :
        i \in {h \in DOMAIN entries : Val(entries[h].type) = "table_row"}}

\* C14: the table_row records of a PDF, PPTX or DOCX file carry, as table,
\* the 1-based index of their table in its page, slide or document (1 for
\* the first table, k for the k-th) and, as row, the 1-based index of the
\* row in its table.
C14_TableIndexIsOneBased ==
    (call.fn = "parse_file" /\ call.ret.ok) =>
        RecordPlaces(call.ret.entries) = TablePlaces(call.arg.read)

\* C15: the ids add_chunks makes for a batch are pairwise distinct, whatever
\* the source_file names (names that end in "_" and digits, batches of
\* several files), so that a batch of n chunks upserted into the empty
\* collection gives exactly n records, one for each chunk of the batch.
C15_BatchIdsDistinct ==
    (call.fn = "add_chunks" /\ call.ret.kind = "str") =>
        LET chunks == call.arg.payload.chunks
            ids == ChunkIds(chunks)
        IN  /\ \A j, k \in DOMAIN chunks : j # k => ids[j] # ids[k]
            /\ Cardinality(DOMAIN store) = Len(chunks)
            /\ \A k \in DOMAIN chunks :
                  /\ ids[k] \in DOMAIN store
                  /\ store[ids[k]].document = Val(chunks[k].text)
                  /\ store[ids[k]].metadata.source_file = chunks[k].source_file

\* a chunk of the file "a_1" and then a chunk of the file "a" have been
\* stored in one batch: the ids are "a_1_0" and "a_1"
C15_Witness ==
    /\ call.fn = "add_chunks"
    /\ Len(call.arg.payload.chunks) = 2
    /\ call.arg.payload.chunks[1].source_file = V(<<"a", "_", "1">>)
    /\ call.arg.payload.chunks[2].source_file = V(<<"a">>)
    /\ DOMAIN store = {<<"a", "_", "1", "_", "0">>, <<"a", "_", "1">>}

====
